---- MODULE Spec2Model ----
(***************************************************************************)
(* Model of mymodule.c: the Person extension type (struct Person, its      *)
(* tp_new / tp_init / tp_dealloc / tp_str hooks, its member descriptors    *)
(* and its name() method), together with the reference counts of the       *)
(* objects the record points to.                                           *)
(*                                                                         *)
(* The CPython calls the source makes are modelled by what they do:        *)
(* PyArg_ParseTupleAndKeywords (format "|OOi"), PyUnicode_FromString,       *)
(* PyUnicode_FromFormat ("%S", "%d"), Py_INCREF / Py_XDECREF, and the       *)
(* T_OBJECT_EX / T_INT member descriptors (PyMember_GetOne / SetOne).      *)
(***************************************************************************)
EXTENDS Integers, Sequences, FiniteSets, TLC

(***************************************************************************)
(* Bounds of the model.                                                    *)
(***************************************************************************)
\* largest number of arguments (positional plus keyword) of one call
MaxArgs == 4
\* heap slots available to PyUnicode_FromString
NFresh == 2

(***************************************************************************)
(* C int, the type of struct Person.number.                                *)
(***************************************************************************)
INT_MAX == 2147483647
INT_MIN == (-INT_MAX) - 1

\* the NULL pointer; object ids are 1, 2, ...
NULL == 0

(***************************************************************************)
(* Python values.  A text is its characters.  A Python integer is          *)
(* unbounded; it is kept as wrap * 2^32 + low with low in INT_MIN..INT_MAX, *)
(* so that low is what a conversion to a 32-bit int keeps and wrap = 0     *)
(* says that the integer is in the range of int.  s is str(value).         *)
(***************************************************************************)
PyUnicode(t) == [kind |-> "str", s |-> t, wrap |-> 0, low |-> 0]
PyLong(w, l, t) == [kind |-> "int", s |-> t, wrap |-> w, low |-> l]
NoVal == [kind |-> "none", s |-> "", wrap |-> 0, low |-> 0]

\* the objects the caller has at hand: a text, a small integer, and 2^31
CallerValue == << PyUnicode("Ada"), PyLong(0, 7, "7"), PyLong(1, INT_MIN, "2147483648") >>
CallerObjs == 1..Len(CallerValue)
FreshObjs == (Len(CallerValue) + 1)..(Len(CallerValue) + NFresh)
ObjIds == CallerObjs \cup FreshObjs

(***************************************************************************)
(* The heap: per object its reference count (0: not allocated) and value.  *)
(***************************************************************************)
Py_INCREF(h, o) == [h EXCEPT !.refcnt[o] = @ + 1]

\* the last reference released deallocates the object
Py_DECREF(h, o) ==
    IF h.refcnt[o] = 1
    THEN [h EXCEPT !.refcnt[o] = 0, !.value[o] = NoVal]
    ELSE [h EXCEPT !.refcnt[o] = @ - 1]

Py_XDECREF(h, o) == IF o = NULL THEN h ELSE Py_DECREF(h, o)

Py_XINCREF(h, o) == IF o = NULL THEN h ELSE Py_INCREF(h, o)

FreeSlots(h) == {o \in FreshObjs : h.refcnt[o] = 0}

Min(S) == CHOOSE x \in S : \A y \in S : x <= y

\* a new text object holding one reference, or NULL when memory is out
PyUnicode_FromString(h, t, canAlloc) ==
    IF canAlloc /\ FreeSlots(h) # {}
    THEN LET o == Min(FreeSlots(h))
         IN  [obj |-> o, h |-> [h EXCEPT !.refcnt[o] = 1, !.value[o] = PyUnicode(t)]]
    ELSE [obj |-> NULL, h |-> h]

(***************************************************************************)
(* "%d": a C int in base 10.                                               *)
(***************************************************************************)
Digit(d) == SubSeq("0123456789", d + 1, d + 1)

RECURSIVE DecNat(_)
DecNat(n) == IF n < 10 THEN Digit(n) ELSE DecNat(n \div 10) \o Digit(n % 10)

\* a negative number is split before it is negated: -INT_MIN is not an int
DecInt(n) ==
    IF n >= 0 THEN DecNat(n)
    ELSE LET d == (10 - (n % 10)) % 10
             q == (0 - (n + d)) \div 10
         IN  "-" \o (IF q = 0 THEN "" ELSE DecNat(q)) \o Digit(d)

PyLong_FromLong(n) == PyLong(0, n, DecInt(n))

(***************************************************************************)
(* A call: the positional arguments (object ids) and the keyword           *)
(* arguments (NULL: keyword not given).  "bogus" is a keyword that is not  *)
(* a parameter.                                                            *)
(***************************************************************************)
kwlist == << "first_name", "last_name", "number" >>
KwNames == {"first_name", "last_name", "number", "bogus"}
NoKw == [k \in KwNames |-> NULL]
NoCall == [pos |-> << >>, kw |-> NoKw]
\* the call under observation: none, or the arguments of the last call
Unseen == [seen |-> FALSE, c |-> NoCall]
Seen(c) == [seen |-> TRUE, c |-> c]

nkw(c) == Cardinality({k \in KwNames : c.kw[k] # NULL})
CallObjs(c) == {c.pos[i] : i \in 1..Len(c.pos)} \cup ({c.kw[k] : k \in KwNames} \ {NULL})

SeqsUpTo(S, n) == UNION {[1..m -> S] : m \in 0..n}

\* calls of at most Len(kwlist) arguments take any objects of the caller;
\* longer calls, which the parser rejects by their length, take the first,
\* as does the unknown keyword, whose value the parser never reads
Calls ==
    {c \in [pos : SeqsUpTo(CallerObjs, MaxArgs), kw : [KwNames -> CallerObjs \cup {NULL}]] :
        /\ Len(c.pos) + nkw(c) <= MaxArgs
        /\ c.kw["bogus"] \in {NULL, 1}
        /\ Len(c.pos) + nkw(c) > Len(kwlist) => CallObjs(c) = {1}}

(***************************************************************************)
(* PyArg_ParseTupleAndKeywords(args, kwds, "|OOi", kwlist, &first_name,     *)
(* &last_name, &self->number).  The outputs start as the caller left them  *)
(* (NULL, NULL, the current self->number) and each is written when its     *)
(* argument is converted, in the order of kwlist.  The count is checked    *)
(* first; keywords left over (a parameter given twice, an unknown keyword) *)
(* are reported after the conversions.                                     *)
(***************************************************************************)
\* "i": a Python integer in the range of int
ConvertInt(v) ==
    IF v.kind # "int" THEN [err |-> "TypeError", msg |-> "an integer is required", n |-> 0]
    ELSE IF v.wrap # 0 THEN [err |-> "OverflowError", msg |-> "signed integer out of range", n |-> 0]
    ELSE [err |-> "none", msg |-> "", n |-> v.low]

PyArg_ParseTupleAndKeywords(h, c, number) ==
    LET nargs == Len(c.pos)
        nkwargs == nkw(c)
        len == Len(kwlist)
        current(i) == IF i <= nargs THEN c.pos[i] ELSE c.kw[kwlist[i]]
        used == Cardinality({i \in (nargs + 1)..len : c.kw[kwlist[i]] # NULL})
        out == [ok |-> TRUE, err |-> "none", msg |-> "",
                first_name |-> NULL, last_name |-> NULL, number |-> number]
    IN  IF nargs + nkwargs > len
        THEN [out EXCEPT !.ok = FALSE, !.err = "TypeError", !.msg = "takes at most 3 arguments"]
        ELSE LET o1 == [out EXCEPT !.first_name = current(1), !.last_name = current(2)]
                 cv == ConvertInt(h.value[current(3)])
             IN  IF current(3) # NULL /\ cv.err # "none"
                 THEN [o1 EXCEPT !.ok = FALSE, !.err = cv.err, !.msg = cv.msg]
                 ELSE LET o2 == IF current(3) # NULL THEN [o1 EXCEPT !.number = cv.n] ELSE o1
                      IN  IF nkwargs - used > 0
                          THEN [o2 EXCEPT !.ok = FALSE, !.err = "TypeError",
                                          !.msg = IF \E i \in 1..nargs : c.kw[kwlist[i]] # NULL
                                                  THEN "given by name and position"
                                                  ELSE "invalid keyword argument"]
                          ELSE o2

(***************************************************************************)
(* State.                                                                  *)
(*   self    the Person record (struct Person), or NoRecord                *)
(*   heap    the objects: reference counts and values                      *)
(*   held    the references the caller holds on objects                    *)
(*   lp64    whether C long is 64 bits wide (else 32) on the build          *)
(*   result  what the last operation returned or raised                   *)
(*   call    the arguments of the call under observation (SpecCall)        *)
(***************************************************************************)
VARIABLES self, heap, held, lp64, result, call

vars == << self, heap, held, lp64, result, call >>

NoRecord == [alive |-> FALSE, first_name |-> NULL, last_name |-> NULL, number |-> 0]

Result(op, field, arg, err, msg, val) ==
    [op |-> op, field |-> field, arg |-> arg, err |-> err, msg |-> msg, val |-> val]

Init ==
    /\ self = NoRecord
    /\ heap = [refcnt |-> [o \in ObjIds |-> IF o \in CallerObjs THEN 1 ELSE 0],
               value  |-> [o \in ObjIds |-> IF o \in CallerObjs THEN CallerValue[o] ELSE NoVal]]
    /\ held = [o \in ObjIds |-> IF o \in CallerObjs THEN 1 ELSE 0]
    /\ lp64 \in BOOLEAN
    /\ result = Result("none", "", NULL, "none", "", NoVal)
    /\ call = Unseen

(***************************************************************************)
(* Person_dealloc: release both texts (when set) and free the record.      *)
(***************************************************************************)
Person_dealloc(s, h) == Py_XDECREF(Py_XDECREF(h, s.first_name), s.last_name)

(***************************************************************************)
(* Person_new.  tp_alloc zeroes the record.  mem is the number of          *)
(* allocations that succeed: 0 fails tp_alloc, 1 fails "John", 2 fails     *)
(* "Doe".  A failure after tp_alloc releases the record (Py_DECREF(self)   *)
(* runs Person_dealloc).                                                   *)
(***************************************************************************)
\* Person_new without the line self->number = 42
Person_new_NoNumber(h, mem) ==
    IF mem < 1 THEN [self |-> NoRecord, h |-> h]
    ELSE LET s0 == [alive |-> TRUE, first_name |-> NULL, last_name |-> NULL, number |-> 0]
             a1 == PyUnicode_FromString(h, "John", mem >= 2)
             s1 == [s0 EXCEPT !.first_name = a1.obj]
         IN  IF s1.first_name = NULL
             THEN [self |-> NoRecord, h |-> Person_dealloc(s1, a1.h)]
             ELSE LET a2 == PyUnicode_FromString(a1.h, "Doe", mem >= 3)
                      s2 == [s1 EXCEPT !.last_name = a2.obj]
                  IN  IF s2.last_name = NULL
                      THEN [self |-> NoRecord, h |-> Person_dealloc(s2, a2.h)]
                      ELSE [self |-> s2, h |-> a2.h]

\* Person_new that returns the record without creating "Doe"
Person_new_NoLastName(h, mem) ==
    IF mem < 1 THEN [self |-> NoRecord, h |-> h]
    ELSE LET s0 == [alive |-> TRUE, first_name |-> NULL, last_name |-> NULL, number |-> 0]
             a1 == PyUnicode_FromString(h, "John", mem >= 2)
             s1 == [s0 EXCEPT !.first_name = a1.obj]
         IN  IF s1.first_name = NULL
             THEN [self |-> NoRecord, h |-> Person_dealloc(s1, a1.h)]
             ELSE [self |-> [s1 EXCEPT !.number = 42], h |-> a1.h]

Person_new(h, mem) ==
    IF mem < 1 THEN [self |-> NoRecord, h |-> h]
    ELSE LET s0 == [alive |-> TRUE, first_name |-> NULL, last_name |-> NULL, number |-> 0]
             a1 == PyUnicode_FromString(h, "John", mem >= 2)
             s1 == [s0 EXCEPT !.first_name = a1.obj]
         IN  IF s1.first_name = NULL
             THEN [self |-> NoRecord, h |-> Person_dealloc(s1, a1.h)]
             ELSE LET a2 == PyUnicode_FromString(a1.h, "Doe", mem >= 3)
                      s2 == [s1 EXCEPT !.last_name = a2.obj]
                  IN  IF s2.last_name = NULL
                      THEN [self |-> NoRecord, h |-> Person_dealloc(s2, a2.h)]
                      ELSE [self |-> [s2 EXCEPT !.number = 42], h |-> a2.h]

(***************************************************************************)
(* Person_init.  The parser writes number straight into the record;        *)
(* the two names go through locals and replace the fields afterwards:      *)
(* tmp = field; Py_INCREF(new); field = new; Py_XDECREF(tmp).              *)
(***************************************************************************)
\* the replacement without Py_INCREF(new)
SetRef_NoIncref(s, h, f, new) ==
    LET tmp == s[f]
    IN  [self |-> [s EXCEPT ![f] = new], h |-> Py_XDECREF(h, tmp)]

\* the replacement written for first_name and pasted for last_name unchanged
SetRef_WrongField(s, h, f, new) ==
    LET tmp == s.first_name
        h1 == Py_INCREF(h, new)
    IN  [self |-> [s EXCEPT !.first_name = new], h |-> Py_XDECREF(h1, tmp)]

SetRef(s, h, f, new) ==
    LET tmp == s[f]
        h1 == Py_INCREF(h, new)
    IN  [self |-> [s EXCEPT ![f] = new], h |-> Py_XDECREF(h1, tmp)]

\* Person_init parsing number into a local that is never stored
Person_init_NumberLocal(s, h, c) ==
    LET p == PyArg_ParseTupleAndKeywords(h, c, s.number)
    IN  IF ~p.ok THEN [ret |-> -1, self |-> s, h |-> h, err |-> p.err, msg |-> p.msg]
        ELSE LET r1 == IF p.first_name # NULL THEN SetRef(s, h, "first_name", p.first_name)
                       ELSE [self |-> s, h |-> h]
                 r2 == IF p.last_name # NULL THEN SetRef(r1.self, r1.h, "last_name", p.last_name)
                       ELSE r1
             IN  [ret |-> 0, self |-> r2.self, h |-> r2.h, err |-> "none", msg |-> ""]

Person_init(s, h, c) ==
    LET p == PyArg_ParseTupleAndKeywords(h, c, s.number)
        s0 == [s EXCEPT !.number = p.number]
    IN  IF ~p.ok THEN [ret |-> -1, self |-> s0, h |-> h, err |-> p.err, msg |-> p.msg]
        ELSE LET r1 == IF p.first_name # NULL THEN SetRef(s0, h, "first_name", p.first_name)
                       ELSE [self |-> s0, h |-> h]
                 r2 == IF p.last_name # NULL THEN SetRef(r1.self, r1.h, "last_name", p.last_name)
                       ELSE r1
             IN  [ret |-> 0, self |-> r2.self, h |-> r2.h, err |-> "none", msg |-> ""]

(***************************************************************************)
(* PyUnicode_FromFormat: "%S" is str(object).  A NULL object is outside    *)
(* the contract of "%S": a build with assertions aborts, a build without   *)
(* them formats the text <NULL>.  The result text is a new object handed   *)
(* to the caller; its allocation is taken to succeed.                      *)
(***************************************************************************)
FormatS(h, o) == IF o = NULL THEN "<NULL>" ELSE h.value[o].s

Person_str(s, h, assertions) ==
    IF assertions /\ (s.first_name = NULL \/ s.last_name = NULL)
    THEN [err |-> "abort", msg |-> "assert(obj)", val |-> NoVal]
    ELSE [err |-> "none", msg |-> "",
          val |-> PyUnicode("Person(first_name=" \o FormatS(h, s.first_name)
                            \o ", last_name=" \o FormatS(h, s.last_name)
                            \o ", number=" \o DecInt(s.number) \o ")")]

\* Person_name without the check of last_name
Person_name_NoLastCheck(s, h) ==
    IF s.first_name = NULL
    THEN [err |-> "AttributeError", msg |-> "first_name", val |-> NoVal]
    ELSE [err |-> "none", msg |-> "",
          val |-> PyUnicode(FormatS(h, s.first_name) \o " " \o FormatS(h, s.last_name))]

\* Person_name with the format "%S%S"
Person_name_NoSpace(s, h) ==
    IF s.first_name = NULL
    THEN [err |-> "AttributeError", msg |-> "first_name", val |-> NoVal]
    ELSE IF s.last_name = NULL
    THEN [err |-> "AttributeError", msg |-> "last_name", val |-> NoVal]
    ELSE [err |-> "none", msg |-> "",
          val |-> PyUnicode(FormatS(h, s.first_name) \o FormatS(h, s.last_name))]

Person_name(s, h) ==
    IF s.first_name = NULL
    THEN [err |-> "AttributeError", msg |-> "first_name", val |-> NoVal]
    ELSE IF s.last_name = NULL
    THEN [err |-> "AttributeError", msg |-> "last_name", val |-> NoVal]
    ELSE [err |-> "none", msg |-> "",
          val |-> PyUnicode(FormatS(h, s.first_name) \o " " \o FormatS(h, s.last_name))]

(***************************************************************************)
(* Person_members: first_name and last_name are T_OBJECT_EX, number is     *)
(* T_INT, all writable (flags = 0).  Reading is PyMember_GetOne, assigning *)
(* and deleting (v = NULL) is PyMember_SetOne.                             *)
(***************************************************************************)
NameFields == {"first_name", "last_name"}
Fields == NameFields \cup {"number"}

PyMember_GetOne(s, h, f) ==
    IF f \in NameFields
    THEN IF s[f] = NULL
         THEN [err |-> "AttributeError", msg |-> f, val |-> NoVal]
         ELSE [err |-> "none", msg |-> "", val |-> h.value[s[f]]]
    ELSE [err |-> "none", msg |-> "", val |-> PyLong_FromLong(s.number)]

\* PyLong_AsLong succeeds when the integer is in the range of long
FitsLong(v, wide) == wide \/ v.wrap = 0

PyMember_SetOne(s, h, f, v, wide) ==
    LET same == [self |-> s, h |-> h]
    IN  IF f \in NameFields
        THEN IF v = NULL /\ s[f] = NULL
             THEN same @@ [err |-> "AttributeError", msg |-> f]
             ELSE LET oldv == s[f]
                      h1 == Py_XINCREF(h, v)
                  IN  [self |-> [s EXCEPT ![f] = v], h |-> Py_XDECREF(h1, oldv),
                       err |-> "none", msg |-> ""]
        ELSE IF v = NULL
             THEN same @@ [err |-> "TypeError", msg |-> "can't delete numeric/char attribute"]
        ELSE IF h.value[v].kind # "int"
             THEN same @@ [err |-> "TypeError", msg |-> "an integer is required"]
        ELSE IF ~FitsLong(h.value[v], wide)
             THEN same @@ [err |-> "OverflowError", msg |-> "int too large to convert to C long"]
        ELSE [self |-> [s EXCEPT !.number = h.value[v].low], h |-> h, err |-> "none",
              msg |-> IF h.value[v].wrap # 0 THEN "RuntimeWarning: Truncation of value to int"
                      ELSE ""]

(***************************************************************************)
(* Operations of the caller.                                               *)
(***************************************************************************)
Held == {o \in ObjIds : held[o] > 0}

\* Person(...): tp_new, then tp_init; a failed tp_init releases the record
ConstructStep(c, mem) ==
    /\ ~self.alive
    /\ CallObjs(c) \subseteq Held
    /\ mem < 3 => c = NoCall
    /\ LET n == Person_new(heap, mem)
           i == Person_init(n.self, n.h, c)
       IN  IF ~n.self.alive
           THEN /\ self' = NoRecord
                /\ heap' = n.h
                /\ result' = Result("construct", "", NULL, "MemoryError", "", NoVal)
           ELSE IF i.ret < 0
           THEN /\ self' = NoRecord
                /\ heap' = Person_dealloc(i.self, i.h)
                /\ result' = Result("construct", "", NULL, i.err, i.msg, NoVal)
           ELSE /\ self' = i.self
                /\ heap' = i.h
                /\ result' = Result("construct", "", NULL, "none", "", NoVal)
    /\ UNCHANGED << held, lp64 >>

\* p.__init__(...) on a constructed record
ReinitStep(c) ==
    /\ self.alive
    /\ CallObjs(c) \subseteq Held
    /\ LET i == Person_init(self, heap, c)
       IN  /\ self' = i.self
           /\ heap' = i.h
           /\ result' = Result("init", "", NULL, i.err, i.msg, NoVal)
    /\ UNCHANGED << held, lp64 >>

Construct == \E c \in Calls, mem \in 0..3 : ConstructStep(c, mem) /\ call' = Unseen

Reinit == \E c \in Calls : ReinitStep(c) /\ call' = Unseen

\* the last reference to the record goes away
Destroy ==
    /\ self.alive
    /\ self' = NoRecord
    /\ heap' = Person_dealloc(self, heap)
    /\ result' = Result("dealloc", "", NULL, "none", "", NoVal)
    /\ call' = Unseen
    /\ UNCHANGED << held, lp64 >>

\* str(p); assertions: whether the interpreter was built with them
Str ==
    /\ self.alive
    /\ \E assertions \in BOOLEAN :
          LET r == Person_str(self, heap, assertions)
          IN  result' = Result("str", "", NULL, r.err, r.msg, r.val)
    /\ call' = Unseen
    /\ UNCHANGED << self, heap, held, lp64 >>

\* p.name()
Name ==
    /\ self.alive
    /\ LET r == Person_name(self, heap)
       IN  result' = Result("name", "", NULL, r.err, r.msg, r.val)
    /\ call' = Unseen
    /\ UNCHANGED << self, heap, held, lp64 >>

\* p.<f>; the caller drops the returned reference after looking at it
GetMember ==
    /\ self.alive
    /\ \E f \in Fields :
          LET r == PyMember_GetOne(self, heap, f)
          IN  result' = Result("get", f, NULL, r.err, r.msg, r.val)
    /\ call' = Unseen
    /\ UNCHANGED << self, heap, held, lp64 >>

\* p.<f> = v
SetMember ==
    /\ self.alive
    /\ \E f \in Fields, v \in Held :
          LET r == PyMember_SetOne(self, heap, f, v, lp64)
          IN  /\ self' = r.self
              /\ heap' = r.h
              /\ result' = Result("set", f, v, r.err, r.msg, NoVal)
    /\ call' = Unseen
    /\ UNCHANGED << held, lp64 >>

\* del p.<f>
DelMember ==
    /\ self.alive
    /\ \E f \in Fields :
          LET r == PyMember_SetOne(self, heap, f, NULL, lp64)
          IN  /\ self' = r.self
              /\ heap' = r.h
              /\ result' = Result("del", f, NULL, r.err, r.msg, NoVal)
    /\ call' = Unseen
    /\ UNCHANGED << held, lp64 >>

\* the caller gives up its reference to an object
Release ==
    /\ \E o \in Held :
          /\ held' = [held EXCEPT ![o] = @ - 1]
          /\ heap' = Py_DECREF(heap, o)
    /\ result' = Result("release", "", NULL, "none", "", NoVal)
    /\ call' = Unseen
    /\ UNCHANGED << self, lp64 >>

Next ==
    \/ Construct
    \/ Reinit
    \/ Destroy
    \/ Str
    \/ Name
    \/ GetMember
    \/ SetMember
    \/ DelMember
    \/ Release

Spec == Init /\ [][Next]_vars

(***************************************************************************)
(* The same program with the arguments of a call kept for inspection.      *)
(* One call is observed at a time: Forget drops the observation (any other *)
(* operation drops it as well), so every sequence of calls is a behaviour. *)
(***************************************************************************)
ConstructRec == \E c \in Calls, mem \in 0..3 : call = Unseen /\ ConstructStep(c, mem) /\ call' = Seen(c)

ReinitRec == \E c \in Calls : call = Unseen /\ ReinitStep(c) /\ call' = Seen(c)

Forget ==
    /\ call.seen
    /\ call' = Unseen
    /\ UNCHANGED << self, heap, held, lp64, result >>

NextCall ==
    \/ ConstructRec
    \/ ReinitRec
    \/ Forget
    \/ Destroy
    \/ Str
    \/ GetMember
    \/ SetMember
    \/ DelMember

SpecCall == Init /\ [][NextCall]_vars

(***************************************************************************)
(* Properties.                                                             *)
(***************************************************************************)
Default == [first_name |-> "John", last_name |-> "Doe", number |-> 42]

\* what a call supplies for the i-th parameter (NULL: nothing)
Supplied(c, i) == IF i <= Len(c.pos) THEN c.pos[i] ELSE c.kw[kwlist[i]]

\* a call of at most three arguments, each parameter given at most once
WellFormed(c) ==
    /\ Len(c.pos) + nkw(c) <= Len(kwlist)
    /\ c.kw["bogus"] = NULL
    /\ \A i \in 1..Len(c.pos) : c.kw[kwlist[i]] = NULL

InIntRange(v) == v.kind = "int" /\ v.wrap = 0

\* the text Person(first_name=..., last_name=..., number=...) of three texts
PersonText(a, b, n) ==
    "Person(first_name=" \o a \o ", last_name=" \o b \o ", number=" \o n \o ")"

\* C1: a successful construction yields a record in which every supplied
\* field is the supplied value and every omitted field is its default
\* ("John", "Doe", 42), whether the values come by position or by keyword.
C1_ConstructionBindsArguments ==
    (call.seen /\ result.op = "construct" /\ result.err = "none") =>
        /\ self.alive
        /\ \A i \in 1..2 :
              LET v == Supplied(call.c, i)
                  f == kwlist[i]
              IN  IF v # NULL THEN self[f] = v
                  ELSE self[f] # NULL /\ heap.value[self[f]] = PyUnicode(Default[f])
        /\ LET n == Supplied(call.c, 3)
           IN  IF n # NULL THEN InIntRange(heap.value[n]) /\ self.number = heap.value[n].low
               ELSE self.number = 42
        /\ (call.c = NoCall) =>
              /\ heap.value[self.first_name].s = "John"
              /\ heap.value[self.last_name].s = "Doe"
              /\ self.number = 42

\* C1 witness: Person(number=7) gave John / Doe / 7
W1_OnlyNumberSeven ==
    /\ call.seen /\ result.op = "construct" /\ result.err = "none"
    /\ call.c = [pos |-> << >>, kw |-> [NoKw EXCEPT !["number"] = 2]]
    /\ self.alive /\ self.number = 7
    /\ heap.value[self.first_name].s = "John"
    /\ heap.value[self.last_name].s = "Doe"

\* C2: a failing initialization changes none of first_name, last_name,
\* number of the record it was called on, and a failing construction
\* returns no record.
X2_FailedInitChangesNothing ==
    [][(result'.op \in {"init", "construct"} /\ result'.err # "none") =>
          IF result'.op = "init"
          THEN /\ self'.first_name = self.first_name
               /\ self'.last_name = self.last_name
               /\ self'.number = self.number
          ELSE ~self'.alive]_vars

\* C3: values of the wrong type are rejected, so the two name fields only
\* ever hold text values.
X3_NamesHoldText ==
    self.alive =>
        \A f \in NameFields : self[f] # NULL => heap.value[self[f]].kind = "str"

\* C4 (as claimed): after a successful construction first_name and
\* last_name are never absent.
X4_NamesNeverAbsent ==
    self.alive => (self.first_name # NULL /\ self.last_name # NULL)

\* C4 (amended): a name field of a constructed record is absent only by a
\* deletion of that field through its member descriptor; every other
\* operation leaves a set field set, and a set field holds a value of the
\* caller or its default.
C4_NamesAbsentOnlyByDeletion ==
    [][self'.alive =>
          \A f \in NameFields :
             IF self'[f] = NULL
             THEN \/ self.alive /\ self[f] = NULL
                  \/ result'.op = "del" /\ result'.field = f /\ result'.err = "none"
             ELSE \/ self'[f] \in CallerObjs
                  \/ heap'.value[self'[f]] = PyUnicode(Default[f])]_vars

\* C4 witness: an assignment and a re-initialization later, both are set
W4_BothSetAfterMutation ==
    /\ self.alive /\ result.op = "init" /\ result.err = "none"
    /\ self.first_name = 1
    /\ self.last_name # NULL /\ heap.value[self.last_name] = PyUnicode("Doe")

\* C5: name() on a record with an absent name field raises the error that
\* names the absent field (first_name first), returns no text and leaves
\* the record as it was.
C5_NameReportsAbsentField ==
    [][(result'.op = "name" /\ (self.first_name = NULL \/ self.last_name = NULL)) =>
          /\ self' = self /\ heap' = heap
          /\ result'.err = "AttributeError"
          /\ result'.val = NoVal
          /\ result'.msg = IF self.first_name = NULL THEN "first_name" ELSE "last_name"]_vars

\* C5 witness: name() failed on a record whose last_name alone is absent
W5_NameFailedOnAbsentLast ==
    /\ self.alive /\ self.first_name # NULL /\ self.last_name = NULL
    /\ result.op = "name" /\ result.err = "AttributeError" /\ result.msg = "last_name"

\* C6: with both name fields present name() returns first_name, one space,
\* last_name of the record as it is now (so a name just assigned shows),
\* and changes nothing.
C6_NameJoinsCurrentFields ==
    [][(result'.op = "name" /\ self.first_name # NULL /\ self.last_name # NULL) =>
          LET a == heap.value[self.first_name]
              b == heap.value[self.last_name]
          IN  /\ self' = self /\ heap' = heap
              /\ result'.err = "none"
              /\ result'.val = PyUnicode(a.s \o " " \o b.s)
              /\ (result.op = "set" /\ result.err = "none" /\ result.field = "first_name")
                    => a = heap.value[result.arg]
              /\ (result.op = "set" /\ result.err = "none" /\ result.field = "last_name")
                    => b = heap.value[result.arg]
              /\ (a.s = "Ada" /\ b.s = "Doe") => result'.val.s = "Ada Doe"]_vars

\* C6 witness: defaults, first_name = "Ada", then name() gave "Ada Doe"
W6_AdaDoe ==
    /\ self.alive /\ result.op = "name" /\ result.val = PyUnicode("Ada Doe")
    /\ self.first_name = 1

\* C7: the textual representation of a constructed record never fails and
\* is Person(first_name=.., last_name=.., number=..) of its current fields,
\* number in base 10, and producing it changes nothing.
X7_StrNeverFails ==
    [][(result'.op = "str") =>
          /\ self' = self /\ heap' = heap
          /\ result'.err = "none"
          /\ self.first_name # NULL /\ self.last_name # NULL
          /\ result'.val = PyUnicode(PersonText(heap.value[self.first_name].s,
                                               heap.value[self.last_name].s,
                                               DecInt(self.number)))]_vars

\* what a successful p.<f> = v leaves in field f: the object itself for a
\* name, the integer as a C int (its low 32 bits) for number
StoredBySet(h, f, v) == IF f \in NameFields THEN v ELSE h.value[v].low

\* what reading field f gives when object v was stored in it
ReadBack(h, f, v) ==
    IF f \in NameFields THEN h.value[v] ELSE PyLong_FromLong(h.value[v].low)

FieldsBut(f) == (Fields \ {f})

\* the one parameter a call of a single argument supplies
OnlyParam(c) == CHOOSE i \in 1..Len(kwlist) : Supplied(c, i) # NULL

SuppliesOne(c) == WellFormed(c) /\ Len(c.pos) + nkw(c) = 1

\* C8 (as claimed): a successful assignment to one field sets that field to
\* the new value and leaves the other two as they were.
X8_AssignmentStoresNewValue ==
    [][(result'.op = "set" /\ result'.err = "none") =>
          LET f == result'.field
              v == result'.arg
          IN  /\ \A g \in FieldsBut(f) : self'[g] = self[g]
              /\ f \in NameFields => self'[f] = v
              /\ f = "number" => (InIntRange(heap.value[v]) /\ self'.number = heap.value[v].low)]_vars

\* C8 (amended): a successful assignment to one field, or a successful
\* re-initialization that supplies only that field, sets that field (a
\* name to the new object, number to the new integer converted to a C int)
\* and leaves the other two fields as they were; a read that follows a
\* store returns what was stored, and a repeated read returns the same.
C8_FieldsIndependentlyMutable ==
    [][/\ (result'.op = "set" /\ result'.err = "none") =>
             LET f == result'.field
             IN  /\ \A g \in FieldsBut(f) : self'[g] = self[g]
                 /\ self'[f] = StoredBySet(heap, f, result'.arg)
       /\ (call'.seen /\ result'.op = "init" /\ result'.err = "none" /\ SuppliesOne(call'.c)) =>
             LET i == OnlyParam(call'.c)
                 f == kwlist[i]
             IN  /\ \A g \in FieldsBut(f) : self'[g] = self[g]
                 /\ self'[f] = StoredBySet(heap, f, Supplied(call'.c, i))
       /\ (result.op = "set" /\ result.err = "none"
             /\ result'.op = "get" /\ result'.field = result.field) =>
             /\ result'.err = "none"
             /\ result'.val = ReadBack(heap, result.field, result.arg)
       /\ (result.op = "get" /\ result'.op = "get" /\ result'.field = result.field) =>
             result' = result]_vars

\* C8 witness: p.first_name = "Ada" on a default record left Doe and 42
W8_AssignedFirstNameOnly ==
    /\ self.alive /\ result.op = "set" /\ result.err = "none"
    /\ result.field = "first_name" /\ self.first_name = 1
    /\ self.last_name # NULL /\ heap.value[self.last_name] = PyUnicode("Doe")
    /\ self.number = 42

\* C9 (as claimed): every integer supplied for number is accepted and
\* stored exactly, without truncation, wrap-around or range error.
X9_EveryIntegerStored ==
    [][/\ (result'.op = "set" /\ result'.field = "number"
             /\ heap.value[result'.arg].kind = "int") =>
             /\ result'.err = "none"
             /\ heap.value[result'.arg].wrap = 0
             /\ self'.number = heap.value[result'.arg].low
       /\ (call'.seen /\ result'.op \in {"init", "construct"} /\ WellFormed(call'.c)
             /\ Supplied(call'.c, 3) # NULL
             /\ heap.value[Supplied(call'.c, 3)].kind = "int") =>
             /\ result'.err = "none"
             /\ heap.value[Supplied(call'.c, 3)].wrap = 0
             /\ self'.number = heap.value[Supplied(call'.c, 3)].low]_vars

\* C9 (amended): every integer in the range of a C int (INT_MIN..INT_MAX)
\* supplied for number, at construction, re-initialization or assignment,
\* is accepted and stored, and reading number back, directly or through
\* the textual representation, gives exactly that integer.
C9_IntRangeStoredExactly ==
    [][/\ (result'.op = "set" /\ result'.field = "number"
             /\ InIntRange(heap.value[result'.arg])) =>
             /\ result'.err = "none"
             /\ self'.number = heap.value[result'.arg].low
       /\ (call'.seen /\ result'.op \in {"init", "construct"} /\ WellFormed(call'.c)
             /\ Supplied(call'.c, 3) # NULL
             /\ InIntRange(heap.value[Supplied(call'.c, 3)])) =>
             /\ result'.err = "none"
             /\ self'.alive
             /\ self'.number = heap.value[Supplied(call'.c, 3)].low
       /\ (result.op = "set" /\ result.field = "number" /\ result.err = "none"
             /\ InIntRange(heap.value[result.arg])
             /\ result'.op = "get" /\ result'.field = "number") =>
             result'.val = heap.value[result.arg]
       /\ (result.op = "set" /\ result.field = "number" /\ result.err = "none"
             /\ InIntRange(heap.value[result.arg])
             /\ result'.op = "str" /\ result'.err = "none") =>
             result'.val.s = PersonText(FormatS(heap, self.first_name),
                                        FormatS(heap, self.last_name),
                                        heap.value[result.arg].s)]_vars

\* C9 witness: p.number = 7, then the number was read back as 7
W9_SevenReadBack ==
    /\ self.alive /\ self.number = 7
    /\ result.op = "get" /\ result.field = "number"
    /\ result.val = PyLong(0, 7, "7")

\* references the record holds on object o
FieldRefs(o) ==
    IF self.alive
    THEN Cardinality({f \in NameFields : self[f] = o})
    ELSE 0

====
